---- MODULE Spec2Model ----
(***************************************************************************)
(* AzureOpenAIDocumentEmbedder (haystack/components/embedders/             *)
(* azure_document_embedder.py): text preparation, batched embedding with   *)
(* skip-and-log on APIError, and positional assignment of the vectors.     *)
(*                                                                         *)
(* Strings are sequences of one-character strings, so that join, replace   *)
(* and str() are modelled by what they do.                                 *)
(***************************************************************************)
EXTENDS Integers, Sequences, FiniteSets, TLC

VARIABLES
    cfg,             \* the component's configuration (self.prefix, ...)
    documents,       \* the caller's list of Document objects (mutated in place)
    documents0,      \* history: the documents as they were when run was called
    pc,              \* position of run: "prepare", "embed", "assign", "done", "raised"
    i,               \* number of documents the loop of _prepare_texts_to_embed has handled
    text_to_embed,   \* local of _prepare_texts_to_embed: the text built last
    texts_to_embed,  \* the insertion-ordered dict id -> text, as a sequence of items
    pos,             \* number of dict items batched() has consumed
    all_embeddings,  \* local of _embed_batch
    meta,            \* local of _embed_batch
    log,             \* entries written through logger
    requests,        \* history: args["input"] of every embeddings.create call
    responses,       \* history: the outcome of every embeddings.create call
    result           \* what run returned

vars == <<cfg, documents, documents0, pc, i, text_to_embed, texts_to_embed, pos,
          all_embeddings, meta, log, requests, responses, result>>

-----------------------------------------------------------------------------
(* Bounds of the model *)

MaxDocs == 3
MaxBatch == 2
MaxPrepDocs == 1

-----------------------------------------------------------------------------
(* Values *)

NL == "\n"
SP == " "

NoneVal == [t |-> "none", s |-> <<>>, n |-> 0]
Absent == [t |-> "absent", s |-> <<>>, n |-> 0]
StrVal(s) == [t |-> "str", s |-> s, n |-> 0]
IntVal(n) == [t |-> "int", s |-> <<>>, n |-> n]

NoEmbedding == [src |-> "none", req |-> 0, k |-> 0]
OldEmbedding == [src |-> "old", req |-> 0, k |-> 0]
\* the k-th vector of the response to the req-th request
Vector(req, k) == [src |-> "service", req |-> req, k |-> k]

MetaKeys == {"topic", "n"}
NoMeta == [key \in MetaKeys |-> Absent]

Doc(id, content, m, emb) == [id |-> id, content |-> content, meta |-> m, embedding |-> emb]

Min(a, b) == IF a < b THEN a ELSE b

BoundedSeqs(S, n) == UNION {[1..k -> S] : k \in 0..n}

-----------------------------------------------------------------------------
(* Python built-ins the component relies on *)

Digit(d) == CASE d = 0 -> "0" [] d = 1 -> "1" [] d = 2 -> "2" [] d = 3 -> "3"
              [] d = 4 -> "4" [] d = 5 -> "5" [] d = 6 -> "6" [] d = 7 -> "7"
              [] d = 8 -> "8" [] d = 9 -> "9"

RECURSIVE NatToStr(_)
NatToStr(n) == IF n < 10 THEN <<Digit(n)>> ELSE NatToStr(n \div 10) \o <<Digit(n % 10)>>

\* str(value) for the metadata values of the model: a str is itself, an int
\* is its decimal numeral
Str(v) == IF v.t = "str" THEN v.s
          ELSE IF v.n < 0 THEN <<"-">> \o NatToStr(0 - v.n) ELSE NatToStr(v.n)

\* separator.join(parts)
RECURSIVE Join(_, _)
Join(sep, parts) ==
    IF parts = <<>> THEN <<>>
    ELSE IF Len(parts) = 1 THEN parts[1]
    ELSE parts[1] \o sep \o Join(sep, Tail(parts))

\* s.replace(old, new) for a one-character old
Replace(s, old, new) == [c \in 1..Len(s) |-> IF s[c] = old THEN new ELSE s[c]]

\* d[key] = value on an insertion-ordered dict: a new key is appended, an
\* existing key keeps its position and takes the new value
DictKeys(d) == {d[p][1] : p \in 1..Len(d)}
DictSet(d, key, value) ==
    IF key \in DictKeys(d)
    THEN [p \in 1..Len(d) |-> IF d[p][1] = key THEN <<key, value>> ELSE d[p]]
    ELSE Append(d, <<key, value>>)

\* a batched() whose slice ends one item too late
NextBatchTooLong(items, done, n) == SubSeq(items, done + 1, Min(done + n + 1, Len(items)))

\* the next tuple more_itertools.batched(items, n) yields once `done` items
\* have been consumed
NextBatch(items, done, n) == SubSeq(items, done + 1, Min(done + n, Len(items)))

\* the pairs zip(xs, ys) yields: as many as the shorter sequence has
ZipLen(xs, ys) == Min(Len(xs), Len(ys))

-----------------------------------------------------------------------------
(* _prepare_texts_to_embed, one document *)

\* [str(doc.meta[key]) for key in fields if key in doc.meta and doc.meta[key] is not None]
RECURSIVE MetaValuesToEmbed(_, _)
MetaValuesToEmbed(doc, fields) ==
    IF fields = <<>> THEN <<>>
    ELSE LET key == Head(fields)
             rest == MetaValuesToEmbed(doc, Tail(fields))
         IN IF doc.meta[key].t # "absent" /\ doc.meta[key].t # "none"
            THEN <<Str(doc.meta[key])>> \o rest
            ELSE rest

\* doc.content or ""
ContentOrEmpty(doc) == IF doc.content.t = "none" THEN <<>> ELSE doc.content.s

\* a preparation that replaces the newlines before it adds prefix and suffix
PrepareTextReplacesInside(doc) ==
    cfg.prefix
      \o Replace(Join(cfg.embedding_separator,
                      MetaValuesToEmbed(doc, cfg.meta_fields_to_embed) \o <<ContentOrEmpty(doc)>>),
                 NL, SP)
      \o cfg.suffix

PrepareText(doc) ==
    Replace(cfg.prefix
              \o Join(cfg.embedding_separator,
                      MetaValuesToEmbed(doc, cfg.meta_fields_to_embed) \o <<ContentOrEmpty(doc)>>)
              \o cfg.suffix,
            NL, SP)

-----------------------------------------------------------------------------
(* _embed_batch and run, the parts the steps below use *)

NoMetaYet == [model |-> "", usage |-> [prompt_tokens |-> 0, total_tokens |-> 0]]

\* an update that takes the model name of every response, not only the first
UpdateMetaLastModel(m, response) ==
    IF m.model = ""
    THEN [model |-> response.model, usage |-> response.usage]
    ELSE [m EXCEPT !.model = response.model,
                   !.usage.prompt_tokens = @ + response.usage.prompt_tokens,
                   !.usage.total_tokens = @ + response.usage.total_tokens]

\* an update that adds total_tokens to both counters
UpdateMetaTotalTwice(m, response) ==
    IF m.model = ""
    THEN [model |-> response.model, usage |-> response.usage]
    ELSE [m EXCEPT !.usage.prompt_tokens = @ + response.usage.total_tokens,
                   !.usage.total_tokens = @ + response.usage.total_tokens]

\* lines 261-268: the meta information after a successful response
UpdateMeta(m, response) ==
    IF m.model = ""
    THEN [model |-> response.model, usage |-> response.usage]
    ELSE [m EXCEPT !.usage.prompt_tokens = @ + response.usage.prompt_tokens,
                   !.usage.total_tokens = @ + response.usage.total_tokens]

\* [b[1] for b in batch] and the b[0] of the batch
BatchTexts(batch) == [p \in 1..Len(batch) |-> batch[p][2]]
BatchIds(batch) == [p \in 1..Len(batch) |-> batch[p][1]]

\* a log entry that joins b[1], the texts, where the code joins b[0], the ids
FailureLogOfTexts(batch) == [level |-> "ERROR", ids |-> Join(<<",", SP>>, BatchTexts(batch))]

\* lines 254-255: the entry logger.exception writes for a failed batch
FailureLog(batch) == [level |-> "ERROR", ids |-> Join(<<",", SP>>, BatchIds(batch))]

\* an assignment that clears the embedding of the documents zip() does not reach
AssignEmbeddingsClearingRest(docs, embeddings) ==
    [j \in 1..Len(docs) |->
        IF j <= ZipLen(docs, embeddings)
        THEN [docs[j] EXCEPT !.embedding = embeddings[j]]
        ELSE [docs[j] EXCEPT !.embedding = NoEmbedding]]

\* lines 292-293: for doc, emb in zip(documents, embeddings): doc.embedding = emb
AssignEmbeddings(docs, embeddings) ==
    [j \in 1..Len(docs) |->
        IF j <= ZipLen(docs, embeddings)
        THEN [docs[j] EXCEPT !.embedding = embeddings[j]]
        ELSE docs[j]]

-----------------------------------------------------------------------------
(* Inputs: documents, configurations and what the remote service answers *)

Pizza == <<"I", SP, "l", "o", "v", "e", SP, "p", "i", "z", "z", "a", "!">>
Food == <<"f", "o", "o", "d">>
FoodPizza == Food \o <<SP>> \o Pizza

TopicMeta(v) == [NoMeta EXCEPT !["topic"] = v]

\* documents of the runs that exercise batching; DocA2 shares DocA's id
DocA == Doc(<<"a">>, StrVal(<<"x">>), NoMeta, NoEmbedding)
DocB == Doc(<<"b">>, NoneVal, TopicMeta(StrVal(Food)), OldEmbedding)
DocC == Doc(<<"c">>, StrVal(<<"y">>), NoMeta, NoEmbedding)
DocA2 == Doc(<<"a">>, StrVal(<<"z">>), NoMeta, NoEmbedding)
RunDocs == {DocA, DocB, DocC, DocA2}

\* five documents with distinct ids
ExampleDocs ==
    [j \in 1..5 |-> Doc(<<"d", Digit(j)>>, StrVal(<<"t", Digit(j)>>), NoMeta, NoEmbedding)]

\* documents of the runs that exercise text preparation
PizzaDoc == Doc(<<"p">>, StrVal(Pizza), TopicMeta(StrVal(Food)), NoEmbedding)
PrepDocs ==
    { PizzaDoc,
      Doc(<<"q">>, StrVal(<<"x", NL, "y">>), TopicMeta(NoneVal), NoEmbedding),
      Doc(<<"r">>, NoneVal, [NoMeta EXCEPT !["n"] = IntVal(-120)], NoEmbedding),
      Doc(<<"s">>, StrVal(<<>>), [topic |-> StrVal(<<"a", NL>>), n |-> IntVal(7)], OldEmbedding),
      Doc(<<"u">>, StrVal(<<"z">>), [topic |-> StrVal(<<>>), n |-> IntVal(0)], NoEmbedding) }

BatchSizes == 1..MaxBatch

RunConfigs ==
    [prefix : {<<>>}, suffix : {<<>>}, embedding_separator : {<<NL>>},
     meta_fields_to_embed : {<<"topic">>}, batch_size : BatchSizes]

PrepConfigs ==
    [prefix : {<<>>, <<"p", NL>>}, suffix : {<<>>, <<"s">>},
     embedding_separator : {<<NL>>, <<",", SP>>},
     meta_fields_to_embed : {<<>>, <<"topic">>, <<"topic", "n">>, <<"n", "topic">>},
     batch_size : BatchSizes]

Usage(p, t) == [prompt_tokens |-> p, total_tokens |-> t]

\* successful answers of embeddings.create: the model name, the usage and
\* how many vectors the answer carries beyond one per input text
Answers ==
    { [model |-> "ada", usage |-> Usage(1, 2), extra |-> 0],
      [model |-> "ada-2", usage |-> Usage(2, 3), extra |-> 0],
      [model |-> "", usage |-> Usage(2, 3), extra |-> 0],
      [model |-> "ada", usage |-> Usage(1, 2), extra |-> 1],
      [model |-> "ada-2", usage |-> Usage(2, 3), extra |-> -1] }

Response(kind, answer, req, n) ==
    [kind |-> kind, model |-> answer.model, usage |-> answer.usage,
     data |-> [k \in 1..(n + answer.extra) |-> Vector(req, k)]]

NoAnswer == [model |-> "", usage |-> Usage(0, 0), extra |-> 0]

NoResult == [returned |-> FALSE, documents |-> <<>>, meta |-> NoMetaYet]

-----------------------------------------------------------------------------
(* The state machine of one call of run *)

Init ==
    /\ \/ /\ cfg \in RunConfigs
          /\ documents \in BoundedSeqs(RunDocs, MaxDocs) \cup {ExampleDocs}
       \/ /\ cfg \in PrepConfigs
          /\ documents \in BoundedSeqs(PrepDocs, MaxPrepDocs)
    /\ documents0 = documents
    /\ pc = "prepare"
    /\ i = 0
    /\ text_to_embed = <<>>
    /\ texts_to_embed = <<>>
    /\ pos = 0
    /\ all_embeddings = <<>>
    /\ meta = NoMetaYet
    /\ log = <<>>
    /\ requests = <<>>
    /\ responses = <<>>
    /\ result = NoResult

\* lines 222-231: one iteration of the loop of _prepare_texts_to_embed
PrepareStep ==
    /\ pc = "prepare"
    /\ i < Len(documents)
    /\ LET doc == documents[i + 1]
       IN /\ text_to_embed' = PrepareText(doc)
          /\ texts_to_embed' = DictSet(texts_to_embed, doc.id, PrepareText(doc))
    /\ i' = i + 1
    /\ UNCHANGED <<cfg, documents, documents0, pc, pos, all_embeddings, meta, log,
                   requests, responses, result>>

\* lines 232, 289, 239-240: _prepare_texts_to_embed returns, _embed_batch starts
PrepareReturn ==
    /\ pc = "prepare"
    /\ i = Len(documents)
    /\ pc' = "embed"
    /\ pos' = 0
    /\ all_embeddings' = <<>>
    /\ meta' = NoMetaYet
    /\ UNCHANGED <<cfg, documents, documents0, i, text_to_embed, texts_to_embed, log,
                   requests, responses, result>>

\* lines 242-251, 258-268: a batch whose remote call succeeds
EmbedSuccess ==
    /\ pc = "embed"
    /\ pos < Len(texts_to_embed)
    /\ \E answer \in Answers :
         LET batch == NextBatch(texts_to_embed, pos, cfg.batch_size)
             response == Response("ok", answer, Len(requests) + 1, Len(batch))
         IN /\ requests' = Append(requests, BatchTexts(batch))
            /\ responses' = Append(responses, response)
            /\ all_embeddings' = all_embeddings \o response.data
            /\ meta' = UpdateMeta(meta, response)
            /\ pos' = pos + Len(batch)
    /\ UNCHANGED <<cfg, documents, documents0, pc, i, text_to_embed, texts_to_embed,
                   log, result>>

\* an except clause that re-raises: the APIError leaves run
EmbedAPIErrorRaises ==
    /\ pc = "embed"
    /\ pos < Len(texts_to_embed)
    /\ LET batch == NextBatch(texts_to_embed, pos, cfg.batch_size)
       IN /\ requests' = Append(requests, BatchTexts(batch))
          /\ responses' = Append(responses,
                                 Response("api_error", NoAnswer, Len(requests) + 1, 0))
          /\ log' = Append(log, FailureLog(batch))
    /\ pc' = "raised"
    /\ UNCHANGED <<cfg, documents, documents0, i, text_to_embed, texts_to_embed, pos,
                   all_embeddings, meta, result>>

\* lines 242-256: a batch whose remote call raises APIError
EmbedAPIError ==
    /\ pc = "embed"
    /\ pos < Len(texts_to_embed)
    /\ LET batch == NextBatch(texts_to_embed, pos, cfg.batch_size)
       IN /\ requests' = Append(requests, BatchTexts(batch))
          /\ responses' = Append(responses,
                                 Response("api_error", NoAnswer, Len(requests) + 1, 0))
          /\ log' = Append(log, FailureLog(batch))
          /\ pos' = pos + Len(batch)
    /\ UNCHANGED <<cfg, documents, documents0, pc, i, text_to_embed, texts_to_embed,
                   all_embeddings, meta, result>>

\* lines 250-252: a remote call that raises something that is no APIError;
\* the except clause does not match and the exception leaves run
EmbedOtherError ==
    /\ pc = "embed"
    /\ pos < Len(texts_to_embed)
    /\ LET batch == NextBatch(texts_to_embed, pos, cfg.batch_size)
       IN /\ requests' = Append(requests, BatchTexts(batch))
          /\ responses' = Append(responses,
                                 Response("error", NoAnswer, Len(requests) + 1, 0))
    /\ pc' = "raised"
    /\ UNCHANGED <<cfg, documents, documents0, i, text_to_embed, texts_to_embed, pos,
                   all_embeddings, meta, log, result>>

\* line 270: batched() is exhausted, _embed_batch returns
EmbedReturn ==
    /\ pc = "embed"
    /\ pos >= Len(texts_to_embed)
    /\ pc' = "assign"
    /\ UNCHANGED <<cfg, documents, documents0, i, text_to_embed, texts_to_embed, pos,
                   all_embeddings, meta, log, requests, responses, result>>

\* lines 292-295: the embeddings are zipped onto the documents, run returns
Assign ==
    /\ pc = "assign"
    /\ documents' = AssignEmbeddings(documents, all_embeddings)
    /\ result' = [returned |-> TRUE,
                  documents |-> AssignEmbeddings(documents, all_embeddings),
                  meta |-> meta]
    /\ pc' = "done"
    /\ UNCHANGED <<cfg, documents0, i, text_to_embed, texts_to_embed, pos,
                   all_embeddings, meta, log, requests, responses>>

Next ==
    \/ PrepareStep
    \/ PrepareReturn
    \/ EmbedSuccess
    \/ EmbedAPIError
    \/ EmbedOtherError
    \/ EmbedReturn
    \/ Assign

Spec == Init /\ [][Next]_vars

-----------------------------------------------------------------------------
(* What the properties below are stated with.  None of it is used by the   *)
(* state machine: the groups, sums and texts are computed here from the    *)
(* histories and the inputs, independently of how the steps compute them.  *)

NumTexts == Len(texts_to_embed)
BatchSize == cfg.batch_size
NumBatches == (NumTexts + BatchSize - 1) \div BatchSize
Finished == pc \in {"assign", "done"}

RECURSIVE Flatten(_)
Flatten(seqs) == IF seqs = <<>> THEN <<>> ELSE Head(seqs) \o Flatten(Tail(seqs))

\* the dict positions of the r-th group of BatchSize consecutive items
GroupFirst(r) == (r - 1) * BatchSize + 1
GroupLast(r) == Min(r * BatchSize, NumTexts)
GroupTexts(r) == [p \in 1..(GroupLast(r) - GroupFirst(r) + 1) |-> texts_to_embed[GroupFirst(r) + p - 1][2]]
GroupIds(r) == [p \in 1..(GroupLast(r) - GroupFirst(r) + 1) |-> texts_to_embed[GroupFirst(r) + p - 1][1]]

Requested == 1..Len(responses)
Succeeded == {r \in Requested : responses[r].kind = "ok"}
Failed == {r \in Requested : responses[r].kind = "api_error"}
FirstSucceeded == CHOOSE r \in Succeeded : \A q \in Succeeded : r <= q

\* each successful response carries one vector per input text
WellFormed == \A r \in Succeeded : Len(responses[r].data) = Len(requests[r])

RECURSIVE SumPrompt(_)
SumPrompt(r) == IF r = 0 THEN 0
                ELSE SumPrompt(r - 1)
                     + (IF r \in Succeeded THEN responses[r].usage.prompt_tokens ELSE 0)
RECURSIVE SumTotal(_)
SumTotal(r) == IF r = 0 THEN 0
               ELSE SumTotal(r - 1)
                    + (IF r \in Succeeded THEN responses[r].usage.total_tokens ELSE 0)

RECURSIVE SuccessfulVectors(_)
SuccessfulVectors(r) ==
    IF r = 0 THEN <<>>
    ELSE SuccessfulVectors(r - 1) \o (IF r \in Succeeded THEN responses[r].data ELSE <<>>)

\* the text the documentation of the component describes for one document
Numeral(n) == CASE n = 0 -> <<"0">> [] n = 7 -> <<"7">> [] n = -120 -> <<"-", "1", "2", "0">>
StringValue(v) == IF v.t = "str" THEN v.s ELSE Numeral(v.n)
FieldIsEmbedded(doc, key) == doc.meta[key].t \notin {"absent", "none"}
EmbeddedFields(doc) == SelectSeq(cfg.meta_fields_to_embed, LAMBDA key : FieldIsEmbedded(doc, key))
Parts(doc) ==
    LET fields == EmbeddedFields(doc)
    IN [k \in 1..(Len(fields) + 1) |->
           IF k <= Len(fields) THEN StringValue(doc.meta[fields[k]])
           ELSE IF doc.content.t = "none" THEN <<>> ELSE doc.content.s]
RECURSIVE JoinedUpTo(_, _, _)
JoinedUpTo(sep, parts, k) ==
    IF k = 1 THEN parts[1] ELSE JoinedUpTo(sep, parts, k - 1) \o sep \o parts[k]
ExpectedText(doc) ==
    LET parts == Parts(doc)
        whole == cfg.prefix \o JoinedUpTo(cfg.embedding_separator, parts, Len(parts)) \o cfg.suffix
    IN [c \in 1..Len(whole) |-> IF whole[c] = NL THEN SP ELSE whole[c]]

\* the dict position of a document's id, its group, and its place in the group
PosOfId(id) == CHOOSE p \in 1..NumTexts : texts_to_embed[p][1] = id
BatchOf(j) == ((PosOfId(documents0[j].id) - 1) \div BatchSize) + 1
PlaceInBatch(j) == ((PosOfId(documents0[j].id) - 1) % BatchSize) + 1
DistinctIds == \A j, k \in 1..Len(documents0) : documents0[j].id = documents0[k].id => j = k

-----------------------------------------------------------------------------
(* C6 *)

\* C6: the requests issued by _embed_batch partition the prepared texts into
\* consecutive groups in original order: no group is empty, every group has
\* at most batch_size texts, every group but the last issued has exactly
\* batch_size, their concatenation is the prepared texts in order, there are
\* ceil(n / batch_size) of them once _embed_batch has returned, and 5 texts
\* with batch_size 2 give groups of sizes 2, 2, 1.
BatchesPartitionTexts ==
    /\ \A r \in 1..Len(requests) :
         /\ Len(requests[r]) >= 1
         /\ Len(requests[r]) <= BatchSize
         /\ r < Len(requests) => Len(requests[r]) = BatchSize
    /\ LET sent == Flatten(requests)
       IN /\ Len(sent) <= NumTexts
          /\ \A p \in 1..Len(sent) : sent[p] = texts_to_embed[p][2]
          /\ Finished => Len(sent) = NumTexts
    /\ Finished => Len(requests) * BatchSize >= NumTexts
    /\ Finished => (Len(requests) - 1) * BatchSize < NumTexts \/ NumTexts = 0
    /\ Finished => Len(requests) = NumBatches
    /\ (Finished /\ NumTexts = 5 /\ BatchSize = 2) =>
         [r \in 1..Len(requests) |-> Len(requests[r])] = <<2, 2, 1>>

\* five texts in batches of two were all requested
FiveTextsInThreeBatches ==
    /\ pc = "done"
    /\ NumTexts = 5
    /\ BatchSize = 2
    /\ Len(requests) = 3
    /\ Len(requests[3]) = 1

-----------------------------------------------------------------------------
(* C7 *)

\* C7: the text _prepare_texts_to_embed builds for a document is prefix +
\* separator.join(string values of the configured metadata fields that are
\* present and not null, in configured order, then the content or "") +
\* suffix, with every newline of the whole replaced by a space; it holds no
\* newline; content "I love pizza!" with topic = "food" embedded and a
\* newline separator gives "food I love pizza!".
PreparedTextIsSpecified ==
    i > 0 =>
      /\ text_to_embed = ExpectedText(documents0[i])
      /\ \A c \in 1..Len(text_to_embed) : text_to_embed[c] # NL
      /\ ( /\ documents0[i] = PizzaDoc
           /\ cfg.meta_fields_to_embed = <<"topic">>
           /\ cfg.embedding_separator = <<NL>>
           /\ cfg.prefix = <<>>
           /\ cfg.suffix = <<>> ) => text_to_embed = FoodPizza

\* the pizza document was prepared with its topic and a newline separator
PizzaPrepared ==
    /\ i = 1
    /\ documents0[1] = PizzaDoc
    /\ cfg.meta_fields_to_embed = <<"topic">>
    /\ cfg.embedding_separator = <<NL>>
    /\ cfg.prefix = <<>>
    /\ cfg.suffix = <<>>
    /\ text_to_embed = FoodPizza

-----------------------------------------------------------------------------
(* C9 *)

\* C9: when run has accumulated k vectors for n documents, the j-th document
\* holds the j-th vector for every j <= min(k, n), every later document's
\* embedding is what it was before the call, and run returns the same list:
\* same documents, same order, length n.
AssignmentIsPositional ==
    pc = "done" =>
      LET k == Len(all_embeddings)
          n == Len(documents0)
          m == IF k <= n THEN k ELSE n
      IN /\ Len(documents) = n
         /\ \A j \in 1..n :
              /\ j <= m => documents[j].embedding = all_embeddings[j]
              /\ j > m => documents[j].embedding = documents0[j].embedding
              /\ documents[j].id = documents0[j].id
              /\ documents[j].content = documents0[j].content
              /\ documents[j].meta = documents0[j].meta
         /\ result.returned
         /\ result.documents = documents

\* a batch was skipped, fewer vectors than documents were accumulated, and
\* the last document still holds the embedding it came with
TrailingDocumentUntouched ==
    /\ pc = "done"
    /\ Failed # {}
    /\ Len(all_embeddings) > 0
    /\ Len(all_embeddings) < Len(documents)
    /\ documents[Len(documents)].embedding = OldEmbedding

-----------------------------------------------------------------------------
(* C4 *)

\* C4: an APIError on a batch never makes _embed_batch or run raise; the
\* failed batch contributes no vectors and is not requested again; every
\* batch is requested exactly once, in input order; the vectors returned are
\* the in-order concatenation of the vectors of the successful batches.
APIErrorsAreSkipped ==
    /\ (\A r \in Requested : responses[r].kind # "error") => pc # "raised"
    /\ Len(requests) = Len(responses)
    /\ Len(requests) <= NumBatches
    /\ \A r \in 1..Len(requests) : requests[r] = GroupTexts(r)
    /\ Finished => Len(requests) = NumBatches
    /\ all_embeddings = SuccessfulVectors(Len(responses))
    /\ Finished => result.returned = (pc = "done")

\* run returned although a batch failed, and the batch after it succeeded
ContinuedAfterAPIError ==
    /\ pc = "done"
    /\ \E r \in Failed : r + 1 \in Succeeded

-----------------------------------------------------------------------------
(* C5 *)

\* the e-th failed request
RECURSIVE CountFailed(_)
CountFailed(r) == IF r = 0 THEN 0 ELSE CountFailed(r - 1) + (IF r \in Failed THEN 1 ELSE 0)
FailedAt(e) == CHOOSE r \in Failed : CountFailed(r) = e

\* C5: one error-severity log entry is written per failed batch and none per
\* successful batch; the entry of a failed batch names the identifiers of
\* exactly the documents of that batch, in batch order; so the number of
\* entries equals the number of failed batches.
OneLogEntryPerFailedBatch ==
    /\ Len(log) = Cardinality(Failed)
    /\ \A e \in 1..Len(log) :
         LET ids == GroupIds(FailedAt(e))
         IN /\ log[e].level = "ERROR"
            /\ log[e].ids = JoinedUpTo(<<",", SP>>, ids, Len(ids))

\* a batch of two documents failed and was logged, another batch succeeded
TwoDocumentBatchLogged ==
    /\ pc = "done"
    /\ Succeeded # {}
    /\ \E r \in Failed : Len(requests[r]) = 2
    /\ Len(log) = Cardinality(Failed)

-----------------------------------------------------------------------------
(* C8 *)

MetaIsFirstModelAndSums ==
    /\ meta.model = responses[FirstSucceeded].model
    /\ meta.usage.prompt_tokens = SumPrompt(Len(responses))
    /\ meta.usage.total_tokens = SumTotal(Len(responses))

-----------------------------------------------------------------------------
(* C3 *)

AllBatchesSucceeded == Finished /\ Succeeded = Requested /\ WellFormed

-----------------------------------------------------------------------------
(* C1, C2, C10 *)

\* C1 as claimed, for responses that carry one vector per input text: after
\* run, no document that belongs to a batch whose remote call failed has had
\* its embedding written.
FailedBatchDocumentsUntouched ==
    (pc = "done" /\ WellFormed) =>
      \A j \in 1..Len(documents0) :
        BatchOf(j) \in Failed => documents[j].embedding = documents0[j].embedding

\* C2 as claimed, for documents with distinct ids and responses that carry
\* one vector per input text: run returns the documents in input order, and
\* every document whose batch succeeded holds the vector returned at its own
\* position of its own batch's response.
SucceededDocumentsGetOwnVector ==
    (pc = "done" /\ DistinctIds /\ WellFormed) =>
      /\ Len(result.documents) = Len(documents0)
      /\ \A j \in 1..Len(documents0) :
           /\ result.documents[j].id = documents0[j].id
           /\ BatchOf(j) \in Succeeded =>
                documents[j].embedding = Vector(BatchOf(j), PlaceInBatch(j))

\* C10 as claimed: the texts sent to the remote service over all batches of a
\* run are the prepared texts of the input documents, one for one and in
\* order, also when two documents carry the same id.
EveryDocumentTextSent ==
    Finished =>
      LET sent == Flatten(requests)
      IN /\ Len(sent) = Len(documents0)
         /\ \A j \in 1..Len(sent) : sent[j] = ExpectedText(documents0[j])

====
